---- MODULE Spec2Model ----
(***************************************************************************)
(* Model of the SAP OData v2 client: the CSRF session state of SAPClient,  *)
(* ExecuteRequest's attach / send / detect / refresh / retry protocol,     *)
(* RefreshCSRFToken under the RWMutex, and the odata wrappers' handling of *)
(* the response.  Several callers share one client.  The HTTP transport    *)
(* (resty) is the environment: every answer it can give is drawn from a    *)
(* small set.                                                              *)
(***************************************************************************)
EXTENDS Integers, Sequences, FiniteSets, TLC

\* ------------------------------------------------------------------ bounds
NumCallers == 2       \* goroutines sharing one SAPClient
MaxCalls == 2         \* calls the goroutines start in all, when they run concurrently
MaxSoloCalls == 3     \* calls a goroutine that has the client to itself makes in a row
MaxEntities == 2      \* entities in the longest collection of a response body

Procs == 1..NumCallers

\* ------------------------------------------------------- program constants
CSRFHeader == "X-CSRF-Token"
CSRFValue == "Fetch"
StatusForbidden == 403

\* Statuses the service answers with besides 403: one success, one error.
Status == [OK |-> 200, ServerError |-> 500]

RefreshWrap == "failed to refresh CSRF token: "
ErrTransport == "transport error"
ErrFetchStatus == "csrf fetch failed with status"
ErrNoToken == "csrf token header not found in response"

\* strings.ToUpper on the method names the model uses
ToUpper(m) ==
    CASE m = "post" -> "POST"
      [] m = "get" -> "GET"
      [] OTHER -> m

isMutatingMethod(method) ==
    LET m == ToUpper(method)
    IN  m = "POST" \/ m = "PUT" \/ m = "PATCH" \/ m = "DELETE"

\* The entry points of the package: the odata wrappers with the method each
\* passes to ExecuteRequest, ExecuteRequest called directly, and
\* RefreshCSRFToken called directly.
Wrappers == {"GetEntitySet", "CreateEntity", "UpdateEntity", "PatchEntity", "DeleteEntity"}

CallKinds ==
    { [api |-> "GetEntitySet", method |-> "GET"],
      [api |-> "CreateEntity", method |-> "POST"],
      [api |-> "UpdateEntity", method |-> "PUT"],
      [api |-> "PatchEntity", method |-> "PATCH"],
      [api |-> "DeleteEntity", method |-> "DELETE"],
      [api |-> "ExecuteRequest", method |-> "HEAD"],
      [api |-> "ExecuteRequest", method |-> "OPTIONS"],
      [api |-> "ExecuteRequest", method |-> "post"],
      [api |-> "RefreshCSRFToken", method |-> ""] }

\* The entry points the concurrent goroutines use.  Goroutine 1 makes the
\* calls that may refresh and retry: one mutating wrapper, one reading
\* wrapper, and the refresh itself.  The others read and refresh around it:
\* to the shared state a retrying ExecuteRequest of another goroutine is its
\* reads and one RefreshCSRFToken, which is what they do.
SharedKinds(p) ==
    IF p = 1
    THEN { c \in CallKinds : c.api \in {"GetEntitySet", "CreateEntity", "RefreshCSRFToken"} }
    ELSE { c \in CallKinds : c.api \in {"GetEntitySet", "RefreshCSRFToken"} }

NoCall == [api |-> "", method |-> ""]

\* ------------------------------------------------------------ response bodies
\* A body is a JSON value or bytes that are not JSON.  Every value is a record
\* of one shape: its type, its text (of a string, a number, or the bytes that
\* are not JSON), the member names of an object, and its members or elements.
JValue(t, s, k, v) == [t |-> t, s |-> s, k |-> k, v |-> v]

JNull == JValue("null", "", <<>>, <<>>)
JStr(s) == JValue("string", s, <<>>, <<>>)
JNum(s) == JValue("number", s, <<>>, <<>>)
JArr(v) == JValue("array", "", <<>>, v)
JObj(k, v) == JValue("object", "", k, v)
NotJSON(s) == JValue("invalid", s, <<>>, <<>>)

\* Member lookup as encoding/json does it: the last member of that name.
Has(o, key) == \E i \in 1..Len(o.k) : o.k[i] = key
Get(o, key) ==
    o.v[CHOOSE i \in 1..Len(o.k) : o.k[i] = key /\ \A j \in (i + 1)..Len(o.k) : o.k[j] # key]

\* The two errors of json.Unmarshal: not JSON, and JSON of the wrong type for
\* the Go value.  Neither message holds the input.
ErrSyntax == "invalid character looking for beginning of value"
ErrType == "json: cannot unmarshal into Go value"

\* json.Unmarshal into a string: a JSON string is stored, null leaves the
\* value as it is, anything else is a type error.
unmarshalString(j, cur) ==
    IF j.t = "string" THEN [err |-> "", val |-> j.s]
    ELSE IF j.t = "null" THEN [err |-> "", val |-> cur]
    ELSE [err |-> ErrType, val |-> cur]

\* The field of o named key decoded into a string, cur when o has none.
stringField(o, key, cur) ==
    IF Has(o, key) THEN unmarshalString(Get(o, key), cur) ELSE [err |-> "", val |-> cur]

\* The caller's entity type T: a struct of string fields.
Material(material, matType) == [Material |-> material, MatType |-> matType]
ZeroMaterial == Material("", "")

\* json.Unmarshal into T: an object sets the fields it names and ignores the
\* rest, null is a no-op, anything else is a type error.
unmarshalEntity(j) ==
    IF j.t = "object"
    THEN LET m == stringField(j, "Material", "")
             t == stringField(j, "MatType", "")
         IN  [err |-> IF m.err # "" THEN m.err ELSE t.err, val |-> Material(m.val, t.val)]
    ELSE IF j.t = "null" THEN [err |-> "", val |-> ZeroMaterial]
    ELSE [err |-> ErrType, val |-> ZeroMaterial]

\* A slice decoder that takes a lone object for a slice of one.
unmarshalEntities_Lenient(j) ==
    IF j.t = "object"
    THEN LET r == unmarshalEntity(j) IN [err |-> r.err, val |-> <<r.val>>]
    ELSE IF j.t = "array"
    THEN LET rs == [i \in 1..Len(j.v) |-> unmarshalEntity(j.v[i])]
         IN  [err |-> IF \E i \in 1..Len(j.v) : rs[i].err # "" THEN ErrType ELSE "",
              val |-> [i \in 1..Len(j.v) |-> rs[i].val]]
    ELSE [err |-> IF j.t = "null" THEN "" ELSE ErrType, val |-> <<>>]

\* json.Unmarshal into []T: an array is decoded element by element, null is
\* the nil slice, anything else is a type error.
unmarshalEntities(j) ==
    IF j.t = "array"
    THEN LET rs == [i \in 1..Len(j.v) |-> unmarshalEntity(j.v[i])]
         IN  [err |-> IF \E i \in 1..Len(j.v) : rs[i].err # "" THEN ErrType ELSE "",
              val |-> [i \in 1..Len(j.v) |-> rs[i].val]]
    ELSE IF j.t = "null" THEN [err |-> "", val |-> <<>>]
    ELSE [err |-> ErrType, val |-> <<>>]

\* The decoded ODataResponse: Result of the instantiation with T is one, of
\* the instantiation with []T is many; err is json.Unmarshal's error.
Decoded(e, one, many) == [err |-> e, one |-> one, many |-> many]

\* json.Unmarshal(j, &w.Result) for the two instantiations of DWrapper.
unmarshalResult(j, target) ==
    IF target = "[]T"
    THEN LET r == unmarshalEntities(j) IN Decoded(r.err, ZeroMaterial, r.val)
    ELSE LET r == unmarshalEntity(j) IN Decoded(r.err, r.val, <<>>)

\* A DWrapper that decodes d itself although it has a results member.
DWrapperUnmarshalJSON_Direct(data, target) ==
    IF data.t \notin {"object", "null"} THEN Decoded(ErrType, ZeroMaterial, <<>>)
    ELSE unmarshalResult(data, target)

\* DWrapper.UnmarshalJSON: d is read as a map of raw members; the results
\* member is decoded when there is one, else d itself.
DWrapperUnmarshalJSON(data, target) ==
    IF data.t \notin {"object", "null"} THEN Decoded(ErrType, ZeroMaterial, <<>>)
    ELSE IF Has(data, "results") THEN unmarshalResult(Get(data, "results"), target)
    ELSE unmarshalResult(data, target)

\* json.Unmarshal(body, &result) for result of type ODataResponse: the d
\* member goes to DWrapper.UnmarshalJSON, a body without d or a null body
\* leaves the zero value.
unmarshalODataResponse(body, target) ==
    IF body.t = "invalid" THEN Decoded(ErrSyntax, ZeroMaterial, <<>>)
    ELSE IF body.t = "null" THEN Decoded("", ZeroMaterial, <<>>)
    ELSE IF body.t # "object" THEN Decoded(ErrType, ZeroMaterial, <<>>)
    ELSE IF Has(body, "d") THEN DWrapperUnmarshalJSON(Get(body, "d"), target)
    ELSE Decoded("", ZeroMaterial, <<>>)

\* ODataErrorResponse as decoded: Err.Code, Err.Message.Lang, Err.Message.Value.
ODataErrorResponse(e, code, lang, value) ==
    [err |-> e, code |-> code, lang |-> lang, value |-> value]

\* json.Unmarshal into ODataMessage.
unmarshalODataMessage(j) ==
    IF j.t = "object"
    THEN LET l == stringField(j, "lang", "")
             v == stringField(j, "value", "")
         IN  [err |-> IF l.err # "" THEN l.err ELSE v.err, lang |-> l.val, value |-> v.val]
    ELSE IF j.t = "null" THEN [err |-> "", lang |-> "", value |-> ""]
    ELSE [err |-> ErrType, lang |-> "", value |-> ""]

\* json.Unmarshal into ODataError.
unmarshalODataError(j) ==
    IF j.t = "object"
    THEN LET c == stringField(j, "code", "")
             m == IF Has(j, "message") THEN unmarshalODataMessage(Get(j, "message"))
                  ELSE [err |-> "", lang |-> "", value |-> ""]
         IN  ODataErrorResponse(IF c.err # "" THEN c.err ELSE m.err, c.val, m.lang, m.value)
    ELSE IF j.t = "null" THEN ODataErrorResponse("", "", "", "")
    ELSE ODataErrorResponse(ErrType, "", "", "")

\* json.Unmarshal(body, &errResp) for errResp of type ODataErrorResponse.
unmarshalODataErrorResponse(body) ==
    IF body.t = "invalid" THEN ODataErrorResponse(ErrSyntax, "", "", "")
    ELSE IF body.t = "null" THEN ODataErrorResponse("", "", "", "")
    ELSE IF body.t # "object" THEN ODataErrorResponse(ErrType, "", "", "")
    ELSE IF Has(body, "error") THEN unmarshalODataError(Get(body, "error"))
    ELSE ODataErrorResponse("", "", "", "")

\* A Go error value: the message it was made with, the bytes formatted into
\* it (<<>> for none), the error it wraps, and, for an *ODataErrorResponse,
\* its fields.
GoError(msg, bytes, cause, code, lang, value) ==
    [msg |-> msg, bytes |-> bytes, cause |-> cause, code |-> code, lang |-> lang,
     value |-> value]

NilError == GoError("", <<>>, "", "", "", "")

ErrParseFailed == "http error and failed to parse odata error: %s"
ErrDecoding == "decoding response: %w"
IsODataError == "*models.ODataErrorResponse"

\* parseError: the body as an ODataErrorResponse, or, when json.Unmarshal
\* fails, an error made of the raw body.
parseError(body) ==
    LET r == unmarshalODataErrorResponse(body)
    IN  IF r.err # ""
        THEN GoError(ErrParseFailed, <<body>>, "", "", "", "")
        ELSE GoError(IsODataError, <<>>, "", r.code, r.lang, r.value)

\* ------------------------------------------------------ transport answers
\* A response: status, the value of its X-CSRF-Token header ("" when the
\* header is absent) and its cookies.
Response(s, h, c) == [status |-> s, csrf |-> h, cookies |-> c]

\* The n-th token the service mints and the session cookie it sets with it.
TokenOf(n) == "T" \o ToString(n)
CookieOf(n) == "S" \o ToString(n)

\* What the service can answer to a dispatched request; the answer may carry
\* a token header and cookies of its own, which ExecuteRequest does not read.
DispatchResponses ==
    { Response(s, h, <<>>) : s \in {Status.OK, StatusForbidden}, h \in {"", "Required"} }
        \cup { Response(Status.ServerError, "", <<>>),
               Response(Status.OK, TokenOf(0), <<CookieOf(0)>>),
               Response(StatusForbidden, "Required", <<CookieOf(0)>>) }

\* What the service can answer to a probe that it accepts: the token header
\* may be missing, the cookies may be none.
ProbeOK(n) ==
    { Response(Status.OK, TokenOf(n), <<CookieOf(n)>>),
      Response(Status.OK, TokenOf(n), <<>>),
      Response(Status.OK, "", <<CookieOf(n)>>) }

ProbeRejected == Response(Status.ServerError, "", <<>>)

\* resp.IsError(): the status is above 399.
IsError(r) == r.status > 399

\* One transport round trip as the caller saw it: whether it was a dispatch
\* of the caller's request or a refresh probe, the method, the X-CSRF-Token
\* header sent (<<>> when not set), the cookies sent, and the answer (<<>> for
\* a transport-level error).
Event(kind, op, hdr, cks, out) ==
    [kind |-> kind, op |-> op, hdr |-> hdr, cks |-> cks, out |-> out]

VARIABLES
    csrfToken,      \* SAPClient.csrfToken
    csrfCookies,    \* SAPClient.csrfCookies
    mu,             \* holders of SAPClient.mu's write lock
    pc,             \* where each goroutine is in its call
    call,           \* the entry point and method of the call in progress
    req,            \* cookies attached to the request being built
    token,          \* the local token / newToken
    probe,          \* RefreshCSRFToken's local resp
    resp,           \* ExecuteRequest's resp: <<>> is nil
    err,            \* the returned error: "" is nil
    log,            \* transport round trips of the call in progress
    refreshes,      \* RefreshCSRFToken invocations of the call in progress
    calls,          \* calls started so far
    entry,          \* the session state each RefreshCSRFToken found when it got the lock
    minted,         \* tokens the service has minted
    stored,         \* {token, cookies} pairs a refresh has stored
    wrapper,        \* the odata function whose ExecuteRequest has returned
    reply,          \* the status and body ExecuteRequest returned to it
    result          \* what the odata function returned: <<>> until it has

vars == <<csrfToken, csrfCookies, mu, pc, call, req, token, probe, resp, err,
          log, refreshes, calls, entry, minted, stored, wrapper, reply, result>>

\* The odata function's tail, which the client's steps leave alone.
decoder == <<wrapper, reply, result>>

shared == <<csrfToken, csrfCookies, mu, minted, stored>>

InitClient ==
    /\ csrfToken = ""
    /\ csrfCookies = <<>>
    /\ mu = {}
    /\ pc = [p \in Procs |-> "idle"]
    /\ call = [p \in Procs |-> NoCall]
    /\ req = [p \in Procs |-> <<>>]
    /\ token = [p \in Procs |-> ""]
    /\ probe = [p \in Procs |-> <<>>]
    /\ resp = [p \in Procs |-> <<>>]
    /\ err = [p \in Procs |-> ""]
    /\ log = [p \in Procs |-> <<>>]
    /\ refreshes = [p \in Procs |-> 0]
    /\ calls = 0
    /\ entry = [p \in Procs |-> <<"", <<>>>>]
    /\ minted = 0
    /\ stored = {<<"", <<>>>>}

\* No odata function is in its tail.
NoReply == [status |-> Status.OK, body |-> JNull]

Init ==
    /\ InitClient
    /\ wrapper = ""
    /\ reply = NoReply
    /\ result = <<>>

\* ------------------------------------------------------------ ExecuteRequest

\* A goroutine enters one of the package's entry points.
Start(p, kinds, max) ==
    /\ pc[p] = "idle"
    /\ calls < max
    /\ \E c \in kinds :
         /\ call' = [call EXCEPT ![p] = c]
         /\ pc' = [pc EXCEPT ![p] = IF c.api = "RefreshCSRFToken" THEN "lock" ELSE "build"]
    /\ calls' = calls + 1
    /\ UNCHANGED <<decoder, shared, req, token, probe, resp, err, log, refreshes, entry>>

\* A read that does not take the lock.
CanRLock_Unguarded(p) == TRUE

\* The read lock can be taken while no writer holds the mutex.
CanRLock(p) == mu = {}

\* A buildRequest that attaches no cookies.
buildRequest_NoCookies(p, next) ==
    /\ CanRLock(p)
    /\ req' = [req EXCEPT ![p] = <<>>]
    /\ pc' = [pc EXCEPT ![p] = next]
    /\ UNCHANGED <<decoder, shared, call, token, probe, resp, err, log, refreshes, calls, entry>>

\* buildRequest: under the read lock, attach the managed cookies if any.
buildRequest(p, next) ==
    /\ CanRLock(p)
    /\ req' = [req EXCEPT ![p] = IF Len(csrfCookies) > 0 THEN csrfCookies ELSE <<>>]
    /\ pc' = [pc EXCEPT ![p] = next]
    /\ UNCHANGED <<decoder, shared, call, token, probe, resp, err, log, refreshes, calls, entry>>

\* Reading s.csrfToken under the read lock into a local.
readToken(p, next) ==
    /\ CanRLock(p)
    /\ token' = [token EXCEPT ![p] = csrfToken]
    /\ pc' = [pc EXCEPT ![p] = next]
    /\ UNCHANGED <<decoder, shared, call, req, probe, resp, err, log, refreshes, calls, entry>>

Build(p) == pc[p] = "build" /\ buildRequest(p, "token")

ReadToken(p) == pc[p] = "token" /\ readToken(p, "send")

\* A first attempt that never attaches the cached token.
FirstHeader_Never(t) == <<>>

\* The header of the first attempt: set only when a token was cached.
FirstHeader(t) == IF t # "" THEN <<t>> ELSE <<>>

\* A check that looks at the status alone and misses the header.
NeedsRefresh_StatusOnly(method, r) ==
    isMutatingMethod(method) /\ r.status = StatusForbidden

\* A check that refreshes for every method.
NeedsRefresh_AnyMethod(method, r) == r.status = StatusForbidden \/ r.csrf = "Required"

\* The CSRF check on the first response.
NeedsRefresh(method, r) ==
    isMutatingMethod(method) /\ (r.status = StatusForbidden \/ r.csrf = "Required")

\* A first attempt whose transport error is treated like a CSRF failure.
AfterTransportError_Retries(method) == IF isMutatingMethod(method) THEN "lock" ELSE "ret"

\* After a transport-level error of the first attempt: return nil, err.
AfterTransportError(method) == "ret"

\* req.Execute of the first attempt, and the check of its outcome.
Dispatch(p) ==
    /\ pc[p] = "send"
    /\ \/ \* transport-level error: return nil, err
          /\ log' = [log EXCEPT ![p] =
                        Append(@, Event("dispatch", call[p].method, FirstHeader(token[p]), req[p], <<>>))]
          /\ resp' = [resp EXCEPT ![p] = <<>>]
          /\ err' = [err EXCEPT ![p] = ErrTransport]
          /\ pc' = [pc EXCEPT ![p] = AfterTransportError(call[p].method)]
       \/ \E r \in DispatchResponses :
          /\ log' = [log EXCEPT ![p] =
                        Append(@, Event("dispatch", call[p].method, FirstHeader(token[p]), req[p], <<r>>))]
          /\ resp' = [resp EXCEPT ![p] = <<r>>]
          /\ err' = err
          /\ pc' = [pc EXCEPT ![p] =
                       IF NeedsRefresh(call[p].method, r) THEN "lock" ELSE "ret"]
    /\ UNCHANGED <<decoder, shared, call, req, token, probe, refreshes, calls, entry>>

\* ---------------------------------------------------------- RefreshCSRFToken

\* s.mu.Lock(): exclusive, taken while nobody holds the mutex.  The read
\* sections of this program are single reads, modelled as one step each, so
\* no reader is ever inside one between two steps.
Lock(p) ==
    /\ pc[p] = "lock"
    /\ mu = {}
    /\ mu' = mu \cup {p}
    /\ refreshes' = [refreshes EXCEPT ![p] = @ + 1]
    /\ pc' = [pc EXCEPT ![p] = "head"]
    /\ entry' = [entry EXCEPT ![p] = <<csrfToken, csrfCookies>>]
    /\ UNCHANGED <<decoder, csrfToken, csrfCookies, minted, stored, call, req, token, probe,
                   resp, err, log, calls>>

\* An ExecuteRequest that ignores the refresh error and retries anyway.
ExecAfterRefresh_Ignores(cause, cur) == [pc |-> "rebuild", resp |-> cur, err |-> ""]

\* What ExecuteRequest does with RefreshCSRFToken's result: wrap and return
\* an error, or go on to the retry.  cur is ExecuteRequest's resp.
ExecAfterRefresh(cause, cur) ==
    IF cause # ""
    THEN [pc |-> "ret", resp |-> <<>>, err |-> RefreshWrap \o cause]
    ELSE [pc |-> "rebuild", resp |-> cur, err |-> ""]

\* RefreshCSRFToken returns cause ("" is nil): the deferred Unlock runs, and
\* the caller continues.
RefreshReturn(p, cause) ==
    /\ mu' = mu \ {p}
    /\ IF call[p].api = "RefreshCSRFToken"
       THEN /\ pc' = [pc EXCEPT ![p] = "ret"]
            /\ err' = [err EXCEPT ![p] = cause]
            /\ resp' = resp
       ELSE LET n == ExecAfterRefresh(cause, resp[p])
            IN  /\ pc' = [pc EXCEPT ![p] = n.pc]
                /\ err' = [err EXCEPT ![p] = n.err]
                /\ resp' = [resp EXCEPT ![p] = n.resp]

\* A refresh that stores whatever the probe's token header holds.
ProbeAnswered_NoCheck(p, r) ==
    /\ probe' = [probe EXCEPT ![p] = <<r>>]
    /\ pc' = [pc EXCEPT ![p] = "store1"]
    /\ UNCHANGED <<mu, err, resp>>

\* A refresh that answers a missing token header with the GET fallback.
ProbeAnswered_Fallback(p, r) ==
    IF r.csrf = ""
    THEN /\ pc' = [pc EXCEPT ![p] = "get"]
         /\ UNCHANGED <<mu, err, resp, probe>>
    ELSE /\ probe' = [probe EXCEPT ![p] = <<r>>]
         /\ pc' = [pc EXCEPT ![p] = "store1"]
         /\ UNCHANGED <<mu, err, resp>>

\* A probe got a non-error response r: the token header is read, and a
\* response without it ends the refresh.
ProbeAnswered(p, r) ==
    IF r.csrf = ""
    THEN /\ RefreshReturn(p, ErrNoToken)
         /\ probe' = probe
    ELSE /\ probe' = [probe EXCEPT ![p] = <<r>>]
         /\ pc' = [pc EXCEPT ![p] = "store1"]
         /\ UNCHANGED <<mu, err, resp>>

\* The probe request: s.client.R().SetHeader(CSRFHeader, CSRFValue), no
\* managed cookies.
ProbeEvent(op, out) == Event("probe", op, <<CSRFValue>>, <<>>, out)

\* A return from the refresh that leaves the mutex locked.
HeadTransportError_KeepsLock(p) ==
    /\ mu' = mu
    /\ pc' = [pc EXCEPT ![p] = "ret"]
    /\ err' = [err EXCEPT ![p] = ErrTransport]
    /\ resp' = [resp EXCEPT ![p] = <<>>]

\* A transport-level error of the HEAD probe ends the refresh.
HeadTransportError(p) == RefreshReturn(p, ErrTransport)

\* req.Head("/") and the checks on its outcome.
ProbeHead(p) ==
    /\ pc[p] = "head"
    /\ \/ /\ log' = [log EXCEPT ![p] = Append(@, ProbeEvent("HEAD", <<>>))]
          /\ HeadTransportError(p)
          /\ UNCHANGED <<probe, minted>>
       \/ /\ log' = [log EXCEPT ![p] = Append(@, ProbeEvent("HEAD", <<ProbeRejected>>))]
          /\ pc' = [pc EXCEPT ![p] = "get"]
          /\ UNCHANGED <<mu, err, resp, probe, minted>>
       \/ \E r \in ProbeOK(minted + 1) :
          /\ log' = [log EXCEPT ![p] = Append(@, ProbeEvent("HEAD", <<r>>))]
          /\ minted' = minted + 1
          /\ ProbeAnswered(p, r)
    /\ UNCHANGED <<decoder, csrfToken, csrfCookies, stored, call, req, token, refreshes, calls, entry>>

\* The GET fallback after an error status of HEAD.
ProbeGet(p) ==
    /\ pc[p] = "get"
    /\ \/ /\ log' = [log EXCEPT ![p] = Append(@, ProbeEvent("GET", <<>>))]
          /\ RefreshReturn(p, ErrTransport)
          /\ UNCHANGED <<probe, minted>>
       \/ /\ log' = [log EXCEPT ![p] = Append(@, ProbeEvent("GET", <<ProbeRejected>>))]
          /\ RefreshReturn(p, ErrFetchStatus)
          /\ UNCHANGED <<probe, minted>>
       \/ \E r \in ProbeOK(minted + 1) :
          /\ log' = [log EXCEPT ![p] = Append(@, ProbeEvent("GET", <<r>>))]
          /\ minted' = minted + 1
          /\ ProbeAnswered(p, r)
    /\ UNCHANGED <<decoder, csrfToken, csrfCookies, stored, call, req, token, refreshes, calls, entry>>

\* s.csrfToken = token
StoreToken(p) ==
    /\ pc[p] = "store1"
    /\ csrfToken' = probe[p][1].csrf
    /\ pc' = [pc EXCEPT ![p] = "store2"]
    /\ UNCHANGED <<decoder, csrfCookies, mu, minted, stored, call, req, token, probe, resp, err,
                   log, refreshes, calls, entry>>

\* A refresh that stores the token and forgets the cookies.
StoreCookies_Forgets(p) ==
    /\ pc[p] = "store2"
    /\ stored' = stored \cup {<<csrfToken, csrfCookies>>}
    /\ RefreshReturn(p, "")
    /\ UNCHANGED <<decoder, csrfToken, csrfCookies, minted, call, req, token, probe, log,
                   refreshes, calls, entry>>

\* s.csrfCookies = resp.Cookies(); return nil
StoreCookies(p) ==
    /\ pc[p] = "store2"
    /\ csrfCookies' = probe[p][1].cookies
    /\ stored' = stored \cup {<<csrfToken, probe[p][1].cookies>>}
    /\ RefreshReturn(p, "")
    /\ UNCHANGED <<decoder, csrfToken, minted, call, req, token, probe, log, refreshes, calls, entry>>

\* ------------------------------------------------------------------ the retry

Rebuild(p) == pc[p] = "rebuild" /\ buildRequest(p, "newtoken")

\* A retry that reuses the token read for the first attempt.
ReadNewToken_Stale(p) ==
    /\ pc[p] = "newtoken"
    /\ pc' = [pc EXCEPT ![p] = "resend"]
    /\ UNCHANGED <<decoder, shared, call, req, token, probe, resp, err, log, refreshes, calls, entry>>

ReadNewToken(p) == pc[p] = "newtoken" /\ readToken(p, "resend")

\* A retry that is checked like the first attempt and refreshes again.
AfterRetry_Loops(method, r) == IF NeedsRefresh(method, r) THEN "lock" ELSE "ret"

\* After the second attempt ExecuteRequest returns whatever it got.
AfterRetry(method, r) == "ret"

\* reqRetry.SetHeader(CSRFHeader, newToken); reqRetry.Execute(method, url)
Redispatch(p) ==
    /\ pc[p] = "resend"
    /\ \/ /\ log' = [log EXCEPT ![p] =
                        Append(@, Event("dispatch", call[p].method, <<token[p]>>, req[p], <<>>))]
          /\ resp' = [resp EXCEPT ![p] = <<>>]
          /\ err' = [err EXCEPT ![p] = ErrTransport]
          /\ pc' = [pc EXCEPT ![p] = "ret"]
       \/ \E r \in DispatchResponses :
          /\ log' = [log EXCEPT ![p] =
                        Append(@, Event("dispatch", call[p].method, <<token[p]>>, req[p], <<r>>))]
          /\ resp' = [resp EXCEPT ![p] = <<r>>]
          /\ err' = err
          /\ pc' = [pc EXCEPT ![p] = AfterRetry(call[p].method, r)]
    /\ UNCHANGED <<decoder, shared, call, req, token, probe, refreshes, calls, entry>>

\* ------------------------------------------------------------- odata wrappers

\* What a wrapper makes of ExecuteRequest's result: the error as it is, a
\* service error from parseError when resp.IsError(), else the decoded body.
Outcome(rs, e) ==
    IF e # "" THEN "error"
    ELSE IF IsError(rs[1]) THEN "service error"
    ELSE "decoded"

\* The call returns to the application; the goroutine's locals are gone.
Return(p) ==
    /\ pc[p] = "ret"
    /\ pc' = [pc EXCEPT ![p] = "idle"]
    /\ call' = [call EXCEPT ![p] = NoCall]
    /\ req' = [req EXCEPT ![p] = <<>>]
    /\ token' = [token EXCEPT ![p] = ""]
    /\ probe' = [probe EXCEPT ![p] = <<>>]
    /\ resp' = [resp EXCEPT ![p] = <<>>]
    /\ err' = [err EXCEPT ![p] = ""]
    /\ log' = [log EXCEPT ![p] = <<>>]
    /\ refreshes' = [refreshes EXCEPT ![p] = 0]
    /\ entry' = [entry EXCEPT ![p] = <<"", <<>>>>]
    /\ UNCHANGED <<decoder, shared, calls>>

Step(p) ==
        \/ Build(p)
        \/ ReadToken(p)
        \/ Dispatch(p)
        \/ Lock(p)
        \/ ProbeHead(p)
        \/ ProbeGet(p)
        \/ StoreToken(p)
        \/ StoreCookies(p)
        \/ Rebuild(p)
        \/ ReadNewToken(p)
        \/ Redispatch(p)
        \/ Return(p)

\* Goroutines sharing the client.
Next ==
    \E p \in Procs :
        \/ Start(p, SharedKinds(p), MaxCalls)
        \/ Step(p)

Spec == Init /\ [][Next]_vars

\* One goroutine with the client to itself, using every entry point.
NextSolo ==
    \/ Start(1, CallKinds, MaxSoloCalls)
    \/ Step(1)

SpecSolo == Init /\ [][NextSolo]_vars

\* The concurrent callers under the scheduling the runtime gives them: a
\* goroutine that can step does, every transport call returns, and
\* sync.RWMutex does not starve a goroutine blocked in Lock or RLock.
SpecFair == Spec /\ \A p \in Procs : SF_vars(Step(p))

\* ------------------------------------------------ the odata functions' tails
\* The bodies the service may send.  Entities as objects: complete, partial,
\* empty, with a number where T has a string, with a member T does not have.
EntityDocs ==
    { JObj(<<"Material", "MatType">>, <<JStr("M1"), JStr("A")>>),
      JObj(<<"Material">>, <<JStr("M2")>>),
      JObj(<<>>, <<>>),
      JObj(<<"Material">>, <<JNum("7")>>),
      JObj(<<"Material", "Other">>, <<JStr("M1"), JStr("x")>>) }

SeqsUpTo(S, n) == UNION { [1..m -> S] : m \in 0..n }

ArrayDocs == { JArr(s) : s \in SeqsUpTo(EntityDocs, MaxEntities) }

ScalarDocs == {JNull, JStr("x"), JNum("1")}

\* What d, or its results member, may hold.
ResultDocs == EntityDocs \cup ArrayDocs \cup ScalarDocs

\* The values of d: the result itself, or an object with a results member,
\* alone or beside another member.
DDocs ==
    ResultDocs
        \cup { JObj(<<"results">>, <<r>>) : r \in ResultDocs }
        \cup { JObj(<<"results", "Material">>, <<r, JStr("M9")>>) :
                 r \in {JArr(<<JObj(<<"Material">>, <<JStr("M2")>>)>>),
                        JObj(<<"Material">>, <<JStr("M2")>>),
                        JStr("x"), JNull} }

MessageDoc == JObj(<<"lang", "value">>, <<JStr("en"), JStr("boom")>>)

\* The values of an error member: structured, partial, and of other shapes.
ErrorDocs ==
    { JObj(<<"code", "message">>, <<JStr("E1"), MessageDoc>>),
      JObj(<<"code">>, <<JStr("E1")>>),
      JObj(<<"code", "message">>, <<JStr("E1"), JStr("boom")>>),
      JObj(<<"code", "message">>, <<JNum("5"), MessageDoc>>),
      JObj(<<>>, <<>>),
      JStr("boom"),
      JNull }

Bodies ==
    {NotJSON("<html>"), NotJSON(""), JArr(<<>>), JObj(<<>>, <<>>),
     JObj(<<"message">>, <<JStr("boom")>>)}
        \cup ScalarDocs
        \cup { JObj(<<"d">>, <<d>>) : d \in DDocs }
        \cup { JObj(<<"error">>, <<e>>) : e \in ErrorDocs }

\* What an odata function returns: its error and, for the generic ones, the
\* Result of the ODataResponse (nil, here the zero value, with an error).
Returned(e, one, many) == [err |-> e, one |-> one, many |-> many]

\* The instantiation of ODataResponse each generic function decodes into.
TargetOf(api) == IF api = "GetEntitySet" THEN "[]T" ELSE "T"

Decoding == {"GetEntitySet", "GetEntityByKey", "CreateEntity"}

\* The odata functions.
Tails == Wrappers \cup Decoding

\* The client's variables, which the tails leave alone.
client == <<csrfToken, csrfCookies, mu, pc, call, req, token, probe, resp, err,
            log, refreshes, calls, entry, minted, stored>>

\* if resp.IsError() { return nil, parseError(resp.Body()) }
ReturnServiceError ==
    /\ result = <<>>
    /\ IsError(reply)
    /\ result' = <<Returned(parseError(reply.body), ZeroMaterial, <<>>)>>
    /\ UNCHANGED <<client, wrapper, reply>>

\* json.Unmarshal(resp.Body(), &result), and the two returns after it.
ReturnDecoded ==
    /\ result = <<>>
    /\ ~IsError(reply)
    /\ wrapper \in Decoding
    /\ LET r == unmarshalODataResponse(reply.body, TargetOf(wrapper))
       IN  result' = IF r.err # ""
                     THEN <<Returned(GoError(ErrDecoding, <<>>, r.err, "", "", ""),
                                     ZeroMaterial, <<>>)>>
                     ELSE <<Returned(NilError, r.one, r.many)>>
    /\ UNCHANGED <<client, wrapper, reply>>

\* UpdateEntity, PatchEntity, DeleteEntity: return nil
ReturnNil ==
    /\ result = <<>>
    /\ ~IsError(reply)
    /\ wrapper \notin Decoding
    /\ result' = <<Returned(NilError, ZeroMaterial, <<>>)>>
    /\ UNCHANGED <<client, wrapper, reply>>

\* An odata function whose ExecuteRequest has returned a response with any
\* of the bodies.
InitDecode ==
    /\ InitClient
    /\ wrapper \in Tails
    /\ reply \in [status : {Status.OK, Status.ServerError}, body : Bodies]
    /\ result = <<>>

NextDecode == ReturnServiceError \/ ReturnDecoded \/ ReturnNil

SpecDecode == InitDecode /\ [][NextDecode]_vars

\* ===================================================================== claims

Dispatches(p) == SelectSeq(log[p], LAMBDA e : e.kind = "dispatch")

Probes(p) == SelectSeq(log[p], LAMBDA e : e.kind = "probe")

InExecuteRequest(p) == call[p].api \notin {"", "RefreshCSRFToken"}

StateMutating == {"POST", "PUT", "PATCH", "DELETE"}

Mutating(p) == ToUpper(call[p].method) \in StateMutating

\* The answer "403, X-CSRF-Token: Required".
Rejected403 == Response(StatusForbidden, "Required", <<>>)

\* A probe the service answered with a token.
Granted(e) == e.out # <<>> /\ ~IsError(e.out[1]) /\ e.out[1].csrf # ""

RefreshPcs == {"head", "get", "store1", "store2"}

\* The transport has so far answered every dispatch of p's call with
\* 403 / Required and every probe with a token.
AlwaysForbidden(p) ==
    /\ InExecuteRequest(p)
    /\ Mutating(p)
    /\ \A i \in DOMAIN log[p] :
         /\ log[p][i].kind = "dispatch" => log[p][i].out = <<Rejected403>>
         /\ log[p][i].kind = "probe" => Granted(log[p][i])

\* C1: against a transport that answers every dispatch of a mutating request
\* with 403 / Required and grants the probe, a call never dispatches more
\* than twice nor refreshes more than once, and when it returns it has
\* dispatched exactly twice and refreshed exactly once, it returns the second
\* 403 response with no error, and a wrapper makes a service error of it.
C1_OneRefreshTwoDispatches ==
    \A p \in Procs :
        AlwaysForbidden(p) =>
            /\ Len(Dispatches(p)) <= 2
            /\ refreshes[p] <= 1
            /\ pc[p] = "ret" =>
                 /\ Len(Dispatches(p)) = 2
                 /\ refreshes[p] = 1
                 /\ err[p] = ""
                 /\ resp[p] = Dispatches(p)[2].out
                 /\ resp[p] = <<Rejected403>>
                 /\ call[p].api \in Wrappers => Outcome(resp[p], err[p]) = "service error"

C1_Witness ==
    \E p \in Procs :
        /\ pc[p] = "ret"
        /\ AlwaysForbidden(p)
        /\ call[p].api = "DeleteEntity"
        /\ Len(Dispatches(p)) = 2
        /\ Outcome(resp[p], err[p]) = "service error"

\* p's call has returned, its first dispatch was answered 403 / Required,
\* every probe was granted and every later dispatch was answered 200.
RejectedThenAccepted(p) ==
    /\ pc[p] = "ret"
    /\ InExecuteRequest(p)
    /\ Mutating(p)
    /\ Len(log[p]) >= 1
    /\ log[p][1].out = <<Rejected403>>
    /\ \A i \in DOMAIN log[p] :
         /\ (i > 1 /\ log[p][i].kind = "dispatch") =>
                (log[p][i].out # <<>> /\ log[p][i].out[1].status = Status.OK)
         /\ log[p][i].kind = "probe" => Granted(log[p][i])

StartsRefresh(p) == refreshes[p] >= 1 \/ pc[p] = "lock"

\* C4: after a first dispatch that got a response, the call goes into a
\* refresh if and only if the method is state-mutating and the response has
\* status 403 or the header X-CSRF-Token: Required; otherwise it has returned
\* with that one dispatch, no probe, and the response as received.
C4_Classification ==
    \A p \in Procs :
        (InExecuteRequest(p) /\ Len(log[p]) >= 1 /\ log[p][1].out # <<>>) =>
            LET r == log[p][1].out[1]
            IN  /\ StartsRefresh(p) <=>
                     (Mutating(p) /\ (r.status = StatusForbidden \/ r.csrf = "Required"))
                /\ ~StartsRefresh(p) =>
                     /\ pc[p] = "ret"
                     /\ Len(log[p]) = 1
                     /\ resp[p] = <<r>>
                     /\ err[p] = ""

\* A mutating call refreshing on the header alone, with status 200.
C4_Witness ==
    \E p \in Procs :
        /\ InExecuteRequest(p)
        /\ Mutating(p)
        /\ Len(log[p]) >= 1
        /\ log[p][1].out = <<Response(Status.OK, "Required", <<>>)>>
        /\ refreshes[p] = 1

\* The token of a header: "" when the header is not set.
HdrToken(h) == IF h = <<>> THEN "" ELSE h[1]

\* C3: every dispatched request carries a token and cookies that one and
\* the same refresh stored, or the initial empty pair.
C3_PairedCredentials ==
    \A p \in Procs :
        \A i \in DOMAIN log[p] :
            log[p][i].kind = "dispatch" =>
                <<HdrToken(log[p][i].hdr), log[p][i].cks>> \in stored

\* p's mutating call has returned; it read a cached token, and its first
\* dispatch was answered neither 403 nor Required.
AcceptedWithCachedToken(p) ==
    /\ pc[p] = "ret"
    /\ InExecuteRequest(p)
    /\ Mutating(p)
    /\ token[p] # ""
    /\ Len(log[p]) >= 1
    /\ log[p][1].out # <<>>
    /\ log[p][1].out[1].status # StatusForbidden
    /\ log[p][1].out[1].csrf # "Required"

\* C5: a mutating call that finds a cached token and whose dispatch the
\* service accepts makes that one dispatch with the cached token (one that a
\* refresh stored) in X-CSRF-Token, makes no probe and no refresh, and
\* returns the dispatch's response with no error.
C5_CachedTokenReused ==
    \A p \in Procs :
        AcceptedWithCachedToken(p) =>
            /\ Len(log[p]) = 1
            /\ refreshes[p] = 0
            /\ log[p][1].kind = "dispatch"
            /\ log[p][1].hdr = <<token[p]>>
            /\ \E pair \in stored : pair[1] = token[p]
            /\ resp[p] = log[p][1].out
            /\ err[p] = ""

C5_Witness ==
    \E p \in Procs :
        /\ AcceptedWithCachedToken(p)
        /\ log[p][1].hdr = <<csrfToken>>
        /\ minted = 1

\* Both probes of p's call were answered with an error status.
BothProbesRejected(p) ==
    /\ InExecuteRequest(p)
    /\ \E i, j \in DOMAIN log[p] :
         /\ log[p][i].kind = "probe" /\ log[p][i].op = "HEAD"
         /\ log[p][i].out # <<>> /\ IsError(log[p][i].out[1])
         /\ log[p][j].kind = "probe" /\ log[p][j].op = "GET"
         /\ log[p][j].out # <<>> /\ IsError(log[p][j].out[1])

\* C6: once HEAD and GET have both come back with an error status, the call
\* has returned: no response, an error that wraps the refresh failure, and
\* the original request dispatched only the once.
C6_RefreshFailureAborts ==
    \A p \in Procs :
        BothProbesRejected(p) =>
            /\ pc[p] = "ret"
            /\ resp[p] = <<>>
            /\ err[p] = RefreshWrap \o ErrFetchStatus
            /\ Len(Dispatches(p)) = 1

C6_Witness ==
    \E p \in Procs :
        /\ BothProbesRejected(p)
        /\ pc[p] = "ret"
        /\ csrfToken # ""

\* p's RefreshCSRFToken has returned.
RefreshReturned(p) == refreshes[p] >= 1 /\ pc[p] \notin RefreshPcs

\* p's RefreshCSRFToken has returned an error.
RefreshFailed(p) ==
    /\ RefreshReturned(p)
    /\ err[p] # ""
    /\ InExecuteRequest(p) => Len(Dispatches(p)) = 1

\* A probe that failed: a transport error or an error status.
ProbeFailed(e) == e.out = <<>> \/ IsError(e.out[1])

\* C7: the first probe is a HEAD; when it fails, by a transport error or by
\* an error status, a GET probe follows; and a refresh that fails has sent
\* the GET, which failed too.
C7_FallbackOnAnyHeadFailure ==
    \A p \in Procs :
        Len(Probes(p)) >= 1 =>
            /\ Probes(p)[1].op = "HEAD"
            /\ (RefreshReturned(p) /\ ProbeFailed(Probes(p)[1])) =>
                   (Len(Probes(p)) = 2 /\ Probes(p)[2].op = "GET")
            /\ RefreshFailed(p) =>
                   (Len(Probes(p)) = 2 /\ Probes(p)[2].op = "GET" /\ ProbeFailed(Probes(p)[2]))

\* The last round trip of p's call after the step.
LastEvent(p) == log'[p][Len(log'[p])]

\* C8: in the step in which a RefreshCSRFToken returns: if its last probe
\* was granted, the stored token and cookies are those of that probe's
\* response and no error is returned; if not, the stored token and cookies
\* are what the refresh found when it took the lock and an error is
\* returned.  Until it stores, the state is what it found.
C8_RefreshReplacesOrLeaves ==
    /\ [](\A p \in Procs :
            pc[p] \in {"head", "get", "store1"} => <<csrfToken, csrfCookies>> = entry[p])
    /\ [][\A p \in Procs :
            (pc[p] \in RefreshPcs /\ pc'[p] \notin RefreshPcs) =>
                IF Granted(LastEvent(p))
                THEN /\ csrfToken' = LastEvent(p).out[1].csrf
                     /\ csrfCookies' = LastEvent(p).out[1].cookies
                     /\ err'[p] = ""
                     /\ pc'[p] = IF InExecuteRequest(p) THEN "rebuild" ELSE "ret"
                ELSE /\ <<csrfToken', csrfCookies'>> = entry[p]
                     /\ err'[p] # ""
                     /\ pc'[p] = "ret"]_vars

\* A refresh that failed for want of the token header and left a
\* non-empty session state as it was.
C8_Witness ==
    \E p \in Procs :
        /\ pc[p] = "ret"
        /\ call[p].api = "RefreshCSRFToken"
        /\ err[p] = ErrNoToken
        /\ csrfToken # ""
        /\ csrfCookies # <<>>
        /\ <<csrfToken, csrfCookies>> = entry[p]

\* The read steps of ExecuteRequest: buildRequest and the token reads.
ReadPcs == {"build", "token", "rebuild", "newtoken"}

HeadProbes(p) == SelectSeq(log[p], LAMBDA e : e.kind = "probe" /\ e.op = "HEAD")

\* C9: at most one caller is between its probe and its store; every caller
\* that has taken the lock for a refresh sends its own HEAD probe, one for
\* each refresh; and no caller's read of the token or the cookies happens
\* while another is in that window.
C9_RefreshesSerialized ==
    /\ [](/\ Cardinality({p \in Procs : pc[p] \in RefreshPcs}) <= 1
          /\ \A p \in Procs :
                (refreshes[p] >= 1 /\ pc[p] # "head") => Len(HeadProbes(p)) = refreshes[p])
    /\ [][\A q \in Procs :
            (pc[q] \in ReadPcs /\ pc'[q] # pc[q]) =>
                \A p \in Procs : pc[p] \notin RefreshPcs]_vars

\* Two callers that each needed a refresh: one has sent its probe and holds
\* the lock while the other, having done its own, waits to read.
C9_Witness ==
    \E p, q \in Procs :
        /\ p # q
        /\ pc[p] \in {"get", "store1", "store2"}
        /\ Len(HeadProbes(p)) = 1
        /\ pc[q] \in {"rebuild", "newtoken"}
        /\ Len(HeadProbes(q)) = 1

\* C10: the retry dispatch of a call carries the token and the cookies that
\* the call's own refresh fetched.
C10_RetryCarriesOwnRefresh ==
    \A p \in Procs :
        (InExecuteRequest(p) /\ Len(Dispatches(p)) = 2) =>
            /\ probe[p] # <<>>
            /\ Dispatches(p)[2].hdr = <<probe[p][1].csrf>>
            /\ Dispatches(p)[2].cks = probe[p][1].cookies

\* C11: once the first dispatch of a call has failed at the transport level,
\* the call has returned that error and no response, has sent nothing else
\* and started no refresh, and, with the client to itself, the session state
\* is still the one the dispatch was built from; whatever the method.
C11_TransportErrorEndsCall ==
    \A p \in Procs :
        (InExecuteRequest(p) /\ Len(log[p]) >= 1 /\ log[p][1].out = <<>>) =>
            /\ pc[p] = "ret"
            /\ Len(log[p]) = 1
            /\ log[p][1].kind = "dispatch"
            /\ refreshes[p] = 0
            /\ err[p] = ErrTransport
            /\ resp[p] = <<>>
            /\ mu = {}
            /\ HdrToken(log[p][1].hdr) = csrfToken
            /\ log[p][1].cks = csrfCookies

\* A mutating call that fails at the transport level while a session is
\* cached.
C11_Witness ==
    \E p \in Procs :
        /\ InExecuteRequest(p)
        /\ Mutating(p)
        /\ Len(log[p]) = 1
        /\ log[p][1].out = <<>>
        /\ pc[p] = "ret"
        /\ csrfToken # ""
        /\ csrfCookies # <<>>

\* Every transport round trip of p's call so far: dispatches and probes.
RoundTrips(p) == Len(log[p])

\* The GET probes of p's call.
GetProbes(p) == SelectSeq(log[p], LAMBDA e : e.kind = "probe" /\ e.op = "GET")

\* C14 as stated: one ExecuteRequest causes at most three round trips, two
\* dispatches and one refresh round trip.
C14_AtMostThreeRoundTrips ==
    \A p \in Procs :
        InExecuteRequest(p) => (RoundTrips(p) <= 3 /\ Len(Probes(p)) <= 1)

\* C14: one ExecuteRequest causes at most four round trips: at most two
\* dispatches of the request, and at most two probes of its one refresh, a
\* HEAD and, after it, a GET; every round trip is one of these.
C14_AtMostFourRoundTrips ==
    \A p \in Procs :
        InExecuteRequest(p) =>
            /\ RoundTrips(p) <= 4
            /\ RoundTrips(p) = Len(Dispatches(p)) + Len(Probes(p))
            /\ Len(Dispatches(p)) <= 2
            /\ Len(HeadProbes(p)) <= 1
            /\ Len(GetProbes(p)) <= Len(HeadProbes(p))
            /\ Len(Probes(p)) = Len(HeadProbes(p)) + Len(GetProbes(p))

\* A call of four round trips: dispatch, HEAD, GET, dispatch.
C14_Witness ==
    \E p \in Procs :
        /\ InExecuteRequest(p)
        /\ RoundTrips(p) = 4
        /\ log[p][1].kind = "dispatch"
        /\ log[p][2].op = "HEAD" /\ log[p][2].kind = "probe"
        /\ log[p][3].op = "GET" /\ log[p][3].kind = "probe"
        /\ log[p][4].kind = "dispatch"
        /\ pc[p] = "ret"

\* The first dispatch of p's call got a response that the CSRF check does
\* not take for an invalid credential.
FirstResponseValid(p) ==
    /\ Len(log[p]) >= 1
    /\ log[p][1].out # <<>>
    /\ ~(log[p][1].out[1].status = StatusForbidden \/ log[p][1].out[1].csrf = "Required")

\* A step that writes the token or the cookies is a store of a goroutine
\* that holds the write lock inside RefreshCSRFToken.
WritesOnlyInRefresh ==
    /\ csrfToken' # csrfToken =>
          \E p \in Procs : p \in mu /\ pc[p] = "store1" /\ pc'[p] = "store2"
    /\ csrfCookies' # csrfCookies =>
          \E p \in Procs : p \in mu /\ pc[p] = "store2" /\ pc'[p] \notin RefreshPcs

\* C15: before the first call the token and the cookies are empty; they are
\* written only by the stores of RefreshCSRFToken; an ExecuteRequest whose
\* method is not state-mutating, or whose first response is not
\* credential-invalid, never enters RefreshCSRFToken and sends no probe,
\* whatever token header and cookies its response carries and whether or not
\* a token is cached.
C15_OnlyRefreshWrites ==
    /\ [](calls = 0 => (csrfToken = "" /\ csrfCookies = <<>>))
    /\ [][WritesOnlyInRefresh]_vars
    /\ [](\A p \in Procs :
            (InExecuteRequest(p) /\ (~Mutating(p) \/ FirstResponseValid(p))) =>
                /\ refreshes[p] = 0
                /\ Probes(p) = <<>>
                /\ pc[p] \notin RefreshPcs \cup {"lock"}
                /\ p \notin mu
                /\ Len(log[p]) <= 1)

\* A non-mutating call made with nothing cached has been answered 403 with
\* X-CSRF-Token: Required and cookies, and has returned with the state still
\* empty.
C15_Witness ==
    \E p \in Procs :
        /\ InExecuteRequest(p)
        /\ ~Mutating(p)
        /\ pc[p] = "ret"
        /\ Len(log[p]) = 1
        /\ log[p][1].hdr = <<>>
        /\ log[p][1].out = <<Response(StatusForbidden, "Required", <<CookieOf(0)>>)>>
        /\ csrfToken = ""
        /\ csrfCookies = <<>>

\* The session state that p's call found: the current one until the call
\* refreshes, and from then on the one its refresh found under the lock.
FoundState(p) == IF refreshes[p] = 0 THEN <<csrfToken, csrfCookies>> ELSE entry[p]

\* C16: with the client to itself, the first round trip of every call is a
\* dispatch of the request; it carries the X-CSRF-Token header exactly when a
\* token was cached, with that token as its value, and it carries exactly the
\* cached cookies; for every method.  With nothing cached it goes out with
\* neither, and no probe precedes it.
C16_FirstDispatchCarriesCache ==
    \A p \in Procs :
        (InExecuteRequest(p) /\ Len(log[p]) >= 1) =>
            /\ log[p][1].kind = "dispatch"
            /\ log[p][1].op = call[p].method
            /\ (log[p][1].hdr # <<>>) <=> (FoundState(p)[1] # "")
            /\ log[p][1].hdr # <<>> => log[p][1].hdr = <<FoundState(p)[1]>>
            /\ log[p][1].cks = FoundState(p)[2]

\* A mutating call made with nothing cached: it went out once without the
\* header and without cookies, was refused, and is now about to probe.
C16_Witness ==
    \E p \in Procs :
        /\ InExecuteRequest(p)
        /\ Mutating(p)
        /\ pc[p] = "head"
        /\ Len(log[p]) = 1
        /\ log[p][1].hdr = <<>>
        /\ log[p][1].cks = <<>>
        /\ entry[p] = <<"", <<>>>>

\* A non-mutating call made with a session cached carries both.
C16_WitnessCached ==
    \E p \in Procs :
        /\ InExecuteRequest(p)
        /\ ~Mutating(p)
        /\ Len(log[p]) = 1
        /\ log[p][1].hdr = <<csrfToken>>
        /\ log[p][1].cks = csrfCookies
        /\ csrfCookies # <<>>

\* A probe that got a non-error response without the token header.
Tokenless(e) == e.kind = "probe" /\ e.out # <<>> /\ ~IsError(e.out[1]) /\ e.out[1].csrf = ""

\* C17: a probe answered without error and without X-CSRF-Token is the last
\* round trip of its call: RefreshCSRFToken has returned the
\* token-header-missing error and released the lock, no probe and no
\* dispatch follows, and an ExecuteRequest has returned that error wrapped,
\* with no response and its one dispatch.
C17_MissingTokenHeaderAborts ==
    \A p \in Procs :
        \A i \in 1..Len(log[p]) :
            Tokenless(log[p][i]) =>
                /\ i = Len(log[p])
                /\ pc[p] = "ret"
                /\ p \notin mu
                /\ err[p] = IF InExecuteRequest(p) THEN RefreshWrap \o ErrNoToken ELSE ErrNoToken
                /\ InExecuteRequest(p) => (resp[p] = <<>> /\ Len(Dispatches(p)) = 1)

\* An ExecuteRequest whose HEAD probe was answered 200 without the header.
C17_Witness ==
    \E p \in Procs :
        /\ InExecuteRequest(p)
        /\ Len(log[p]) = 2
        /\ log[p][2].op = "HEAD"
        /\ Tokenless(log[p][2])
        /\ pc[p] = "ret"

\* The tokens that probes have been answered with so far.
ProbeTokens == { TokenOf(n) : n \in 1..minted }

\* The dispatches of p's call after the first.
RetryDispatches(p) ==
    { i \in 2..Len(log[p]) : log[p][i].kind = "dispatch" }

\* C20: the stored token is empty or a non-empty value that a probe was
\* answered with in X-CSRF-Token; no step takes it from non-empty to empty;
\* and every retry dispatch carries the header with a non-empty value.
C20_TokenNeverEmptiedAgain ==
    /\ [](csrfToken = "" \/ csrfToken \in ProbeTokens)
    /\ [][csrfToken # "" => csrfToken' # ""]_vars
    /\ [](\A p \in Procs : \A i \in RetryDispatches(p) :
            /\ Len(log[p][i].hdr) = 1
            /\ log[p][i].hdr[1] # ""
            /\ log[p][i].hdr[1] \in ProbeTokens)

\* One goroutine has retried with a token while another's refresh, answered
\* without the token header, has returned and left the stored token in place.
C20_Witness ==
    \E p, q \in Procs :
        /\ p # q
        /\ RetryDispatches(p) # {}
        /\ Len(log[q]) >= 1
        /\ Tokenless(log[q][Len(log[q])])
        /\ pc[q] = "ret"
        /\ csrfToken # ""

\* C19: a goroutine holds the write lock only between Lock and the return
\* of RefreshCSRFToken, so it is released on every return path and is never
\* held at a read of the token or the cookies; at most one goroutine holds
\* it; every call that has started returns; and every goroutine waiting for
\* the write lock or a read lock gets it.
C19_CallsTerminate ==
    /\ [](\A p \in Procs : p \in mu => pc[p] \in RefreshPcs)
    /\ [](Cardinality(mu) <= 1)
    /\ \A p \in Procs : (pc[p] \notin {"idle", "ret"}) ~> (pc[p] = "ret")
    /\ \A p \in Procs : (pc[p] = "lock") ~> (p \in mu)
    /\ \A p \in Procs : (pc[p] \in ReadPcs) ~> (pc[p] \notin ReadPcs)

\* One goroutine's refresh has failed and returned while another waits for
\* the lock it released.
C19_Witness ==
    \E p, q \in Procs :
        /\ p # q
        /\ pc[p] = "ret"
        /\ refreshes[p] = 1
        /\ err[p] # ""
        /\ pc[q] = "lock"
        /\ mu = {}

\* An entity object whose members that T has are strings.
WellTyped(e) ==
    /\ e.t = "object"
    /\ \A i \in 1..Len(e.k) : e.k[i] \in {"Material", "MatType"} => e.v[i].t = "string"

\* The text of e's member key, "" when e has none.
Field(e, key) == IF Has(e, key) THEN Get(e, key).s ELSE ""

\* The value of T that the entity object e stands for.
ValueOf(e) == Material(Field(e, "Material"), Field(e, "MatType"))

\* A generic odata function has returned on a success response whose body
\* has a d member.
DecodedD == result # <<>> /\ ~IsError(reply) /\ wrapper \in Decoding
                /\ reply.body.t = "object" /\ Has(reply.body, "d")

\* C12: a sequence of well-typed entities in d.results, decoded as a
\* sequence, and a well-typed entity directly in d, decoded as a single
\* entity, both succeed; each decoded entity has the values of the members
\* of its object, the same whichever of the two shapes it came in; and an
\* object in d without a results member, decoded as a sequence, is a decode
\* error.
C12_BothShapesDecode ==
    DecodedD =>
        LET d == Get(reply.body, "d")
            r == result[1]
        IN  /\ (/\ wrapper = "GetEntitySet"
                /\ d.t = "object" /\ d.k = <<"results">> /\ d.v[1].t = "array"
                /\ \A i \in 1..Len(d.v[1].v) : WellTyped(d.v[1].v[i])) =>
                    /\ r.err = NilError
                    /\ Len(r.many) = Len(d.v[1].v)
                    /\ \A i \in 1..Len(r.many) :
                         /\ r.many[i] = ValueOf(d.v[1].v[i])
                         /\ r.many[i] =
                              unmarshalODataResponse(JObj(<<"d">>, <<d.v[1].v[i]>>), "T").one
            /\ (wrapper # "GetEntitySet" /\ WellTyped(d) /\ ~Has(d, "results")) =>
                    /\ r.err = NilError
                    /\ r.one = ValueOf(d)
            /\ (wrapper = "GetEntitySet" /\ d.t = "object" /\ ~Has(d, "results")) =>
                    /\ r.err.msg = ErrDecoding
                    /\ r.err.cause = ErrType
                    /\ r.many = <<>>

\* GetEntitySet has decoded a d.results of two entities.
C12_Witness ==
    /\ DecodedD
    /\ wrapper = "GetEntitySet"
    /\ Get(reply.body, "d").k = <<"results">>
    /\ result[1].err = NilError
    /\ Len(result[1].many) = 2
    /\ result[1].many[1] = Material("M1", "A")
    /\ result[1].many[2] = Material("M2", "")

\* GetEntitySet has failed on a single entity directly in d.
C12_WitnessMismatch ==
    /\ DecodedD
    /\ wrapper = "GetEntitySet"
    /\ Get(reply.body, "d") = JObj(<<"Material">>, <<JStr("M2")>>)
    /\ result[1].err.msg = ErrDecoding

\* An odata function has returned on an error-status response.
ServiceErrorReturned == result # <<>> /\ IsError(reply)

\* The body has the shape {error: {code, message: {lang, value}}}.
Structured(body) ==
    /\ body.t = "object" /\ Has(body, "error")
    /\ LET e == Get(body, "error")
       IN  /\ e.t = "object" /\ Has(e, "code") /\ Get(e, "code").t = "string"
           /\ Has(e, "message")
           /\ LET m == Get(e, "message")
              IN  /\ m.t = "object"
                  /\ Has(m, "lang") /\ Get(m, "lang").t = "string"
                  /\ Has(m, "value") /\ Get(m, "value").t = "string"

\* The body is not JSON, or is JSON without an error object.
NoErrorObject(body) ==
    \/ body.t # "object"
    \/ ~Has(body, "error")
    \/ Get(body, "error").t # "object"

\* C13: on an error status the returned error has the code and the message
\* of a body of the structured shape, and has the raw body when the body is
\* not JSON or is JSON without an error object.
C13_ErrorCarriesCodeOrRawBody ==
    ServiceErrorReturned =>
        LET e == result[1].err
        IN  /\ Structured(reply.body) =>
                 /\ e.msg = IsODataError
                 /\ e.code = Get(Get(reply.body, "error"), "code").s
                 /\ e.value = Get(Get(Get(reply.body, "error"), "message"), "value").s
            /\ NoErrorObject(reply.body) => e.bytes = <<reply.body>>

\* A generic odata function has failed to decode a success response.
DecodeFailed ==
    /\ result # <<>>
    /\ ~IsError(reply)
    /\ wrapper \in Decoding
    /\ unmarshalODataResponse(reply.body, TargetOf(wrapper)).err # ""

\* C18: a success response that does not decode is returned as a decode
\* error that holds the bytes of the response.
C18_DecodeErrorCarriesBytes ==
    DecodeFailed =>
        /\ result[1].err.msg = ErrDecoding
        /\ result[1].err.bytes = <<reply.body>>

\* The d of the body has a results member beside other members.
ResultsBesideSiblings ==
    /\ DecodedD
    /\ Get(reply.body, "d").t = "object"
    /\ Has(Get(reply.body, "d"), "results")
    /\ Len(Get(reply.body, "d").k) > 1

\* C21: when d has a results member, what is returned is what the value of
\* results alone decodes to, for a sequence and for a single entity alike:
\* the same as for a d with that results member and no other; a well-typed
\* entity or sequence in results gives its own values and an error-free
\* return, null gives the zero value, and a results of another type is a
\* decode error although d has the entity's members too.  No other member
\* of d reaches the result.
C21_OnlyResultsDecoded ==
    (DecodedD /\ Get(reply.body, "d").t = "object" /\ Has(Get(reply.body, "d"), "results")) =>
        LET d == Get(reply.body, "d")
            v == Get(d, "results")
            r == result[1]
            alone == unmarshalODataResponse(JObj(<<"d">>, <<JObj(<<"results">>, <<v>>)>>),
                                            TargetOf(wrapper))
        IN  /\ (r.err = NilError) <=> (alone.err = "")
            /\ r.err # NilError => (r.err.msg = ErrDecoding /\ r.err.cause = alone.err)
            /\ r.err = NilError => (r.one = alone.one /\ r.many = alone.many)
            /\ (wrapper # "GetEntitySet" /\ WellTyped(v)) =>
                   (r.err = NilError /\ r.one = ValueOf(v))
            /\ (wrapper # "GetEntitySet" /\ v.t = "null") =>
                   (r.err = NilError /\ r.one = ZeroMaterial)
            /\ (wrapper # "GetEntitySet" /\ v.t \notin {"object", "null"}) =>
                   (r.err.msg = ErrDecoding /\ r.one = ZeroMaterial)
            /\ (wrapper = "GetEntitySet" /\ v.t = "array"
                    /\ \A i \in 1..Len(v.v) : WellTyped(v.v[i])) =>
                   /\ r.err = NilError
                   /\ Len(r.many) = Len(v.v)
                   /\ \A i \in 1..Len(v.v) : r.many[i] = ValueOf(v.v[i])

\* A single entity was asked for, d has results and a Material of its own,
\* and the entity returned is the one in results.
C21_Witness ==
    /\ ResultsBesideSiblings
    /\ wrapper # "GetEntitySet"
    /\ Get(Get(reply.body, "d"), "Material") = JStr("M9")
    /\ Get(Get(reply.body, "d"), "results") = JObj(<<"Material">>, <<JStr("M2")>>)
    /\ result[1].err = NilError
    /\ result[1].one = Material("M2", "")

\* A single entity with a string property named results is a decode error.
C21_WitnessOwnProperty ==
    /\ ResultsBesideSiblings
    /\ wrapper # "GetEntitySet"
    /\ Get(Get(reply.body, "d"), "results") = JStr("x")
    /\ result[1].err.msg = ErrDecoding

====
